---------------------------- MODULE Spec2Model ----------------------------
(***************************************************************************)
(* Model of timeline_stamp.py: the timeline index (load_timeline_points,   *)
(* find_nearest_timeline_point), the offset formatter (_format_tz_offset)  *)
(* and the batch driver (main / update_photo).                             *)
(*                                                                         *)
(* Instants and durations are integers counting the smallest time unit;    *)
(* in the batch driver the unit is one minute.  Coordinates are integers   *)
(* counting 1/1024 of a degree, for which the source's float arithmetic    *)
(* is exact.  Strings the source formats are sequences of one-character    *)
(* strings.                                                                *)
(***************************************************************************)
EXTENDS Integers, Sequences, FiniteSets, TLC

VARIABLES
    \* _format_tz_offset
    td,             \* the timedelta handed to the formatter, in seconds
    offset_str,     \* the string it returned (<<>> before the call)
    \* find_nearest_timeline_point
    points,         \* the timeline index: a sequence of TimelinePoint
    ts,             \* the query instant
    nearest,        \* index in points of the returned point, 0 for None
    \* load_timeline_points
    segments,       \* the semanticSegments of Timeline.json, in document order
    seg_idx,        \* number of segments consumed by the for loop
    tf_points,      \* the list being built
    warnings,       \* number of LOGGER.warning calls of the build
    \* main / update_photo
    args,           \* parsed command line of the current run
    files,          \* photo -> EXIF stored in the photo's file
    backups,        \* photo -> <<>> or <<EXIF stored in its .exif_backup file>>
    photo,          \* position of the for loop in photo_paths
    processed,
    skipped,
    tl_point,       \* index in points of the matched sample
    exif_dict,      \* update_photo's in-memory tag map
    run,            \* number of runs of main started so far
    hist,           \* history: the files at the start of the run, and what
                    \* the run has done with the current photograph
    pc              \* control position

fmtVars   == <<td, offset_str>>
nearVars  == <<ts, nearest>>
buildVars == <<segments, seg_idx, tf_points, warnings>>
mainVars  == <<args, files, backups, photo, processed, skipped, tl_point,
               exif_dict, run, hist>>
vars == <<td, offset_str, points, ts, nearest, segments, seg_idx, tf_points,
          warnings, args, files, backups, photo, processed, skipped, tl_point,
          exif_dict, run, hist, pc>>

---------------------------------------------------------------------------
(* Arithmetic helpers *)

Abs(x) == IF x < 0 THEN -x ELSE x

\* Python's int(a / b) for b > 0: truncation toward zero
TruncDiv(a, b) == IF a >= 0 THEN a \div b ELSE -((-a) \div b)

DigitChars == <<"0", "1", "2", "3", "4", "5", "6", "7", "8", "9">>

RECURSIVE DecimalDigits(_)
\* str(n) for n >= 0
DecimalDigits(n) ==
    IF n < 10 THEN <<DigitChars[n + 1]>>
    ELSE DecimalDigits(n \div 10) \o <<DigitChars[(n % 10) + 1]>>

\* f"{n:02d}" for n >= 0: at least two digits, zero-padded
Format02d(n) == IF n < 10 THEN <<"0">> \o DecimalDigits(n) ELSE DecimalDigits(n)

---------------------------------------------------------------------------
(* _format_tz_offset *)

\* A formatter that gives zero the sign "-"
format_tz_offset_signflip(secs) ==
    LET total_minutes == TruncDiv(secs, 60)
        sign == IF total_minutes > 0 THEN "+" ELSE "-"
        hh   == Abs(total_minutes) \div 60
        mm   == Abs(total_minutes) % 60
    IN  <<sign>> \o Format02d(hh) \o <<":">> \o Format02d(mm)

format_tz_offset(secs) ==
    LET total_minutes == TruncDiv(secs, 60)
        sign == IF total_minutes >= 0 THEN "+" ELSE "-"
        hh   == Abs(total_minutes) \div 60
        mm   == Abs(total_minutes) % 60
    IN  <<sign>> \o Format02d(hh) \o <<":">> \o Format02d(mm)

---------------------------------------------------------------------------
(* find_nearest_timeline_point *)

\* bisect.bisect_left(keys, x), 0-based: the number of keys < x when keys is
\* sorted; computed by the same halving loop as the library
RECURSIVE BisectLoop(_, _, _, _)
BisectLoop(keys, x, lo, hi) ==
    IF lo < hi
    THEN LET mid == (lo + hi) \div 2
         IN  IF keys[mid + 1] < x
             THEN BisectLoop(keys, x, mid + 1, hi)
             ELSE BisectLoop(keys, x, lo, mid)
    ELSE lo

bisect_left(keys, x) == BisectLoop(keys, x, 0, Len(keys))

\* min(candidates, key=...): the first candidate with the least key
RECURSIVE MinByDistance(_, _, _)
MinByDistance(candidates, pts, t) ==
    IF Len(candidates) = 1 THEN candidates[1]
    ELSE LET rest == MinByDistance(Tail(candidates), pts, t)
             head == candidates[1]
         IN  IF Abs(pts[head].time_utc - t) <= Abs(pts[rest].time_utc - t)
             THEN head ELSE rest

\* Only the point at the insertion index is a candidate
find_nearest_right_only(pts, t) ==
    LET keys == [k \in 1..Len(pts) |-> pts[k].time_utc]
        idx  == bisect_left(keys, t)
    IN  IF idx < Len(pts) THEN idx + 1 ELSE 0

\* The left neighbour is appended to the candidates first
find_nearest_left_first(pts, t) ==
    LET keys == [k \in 1..Len(pts) |-> pts[k].time_utc]
        idx  == bisect_left(keys, t)
        candidates ==
            (IF idx > 0 THEN <<idx>> ELSE <<>>)
            \o (IF idx < Len(pts) THEN <<idx + 1>> ELSE <<>>)
    IN  IF candidates = <<>> THEN 0 ELSE MinByDistance(candidates, pts, t)

\* Returns the 1-based position in pts of the point the source returns,
\* 0 for None.  idx is 0-based as in the source: points[idx] is pts[idx + 1].
find_nearest_timeline_point(pts, t) ==
    LET keys == [k \in 1..Len(pts) |-> pts[k].time_utc]
        idx  == bisect_left(keys, t)
        candidates ==
            (IF idx < Len(pts) THEN <<idx + 1>> ELSE <<>>)
            \o (IF idx > 0 THEN <<idx>> ELSE <<>>)
    IN  IF candidates = <<>> THEN 0 ELSE MinByDistance(candidates, pts, t)

---------------------------------------------------------------------------
(* load_timeline_points *)

(* A coordinate string "lat, lon" is modelled by the list of its fields    *)
(* after the degree marker is removed and the string is split on ",":      *)
(* each field either converts to a float (num, with value val) or does     *)
(* not.  A missing dictionary key is the empty sequence, a present value   *)
(* v is <<v>>; a time string that dateutil cannot parse is modelled like a *)
(* missing one, both raise.                                                *)

Raised(pts) == [raised |-> TRUE, pts |-> pts]
Returned(pts) == [raised |-> FALSE, pts |-> pts]

\* _parse_latlng: ValueError unless there are exactly two fields, both floats
parse_latlng(ll_str) ==
    IF Len(ll_str) = 2 /\ ll_str[1].num /\ ll_str[2].num
    THEN [raised |-> FALSE, lat |-> ll_str[1].val, lon |-> ll_str[2].val]
    ELSE [raised |-> TRUE, lat |-> 0, lon |-> 0]

\* timedelta / 2: exact division rounded half to even, in the smallest unit
HalfOf(d) ==
    LET q == d \div 2
    IN  IF d % 2 = 0 \/ q % 2 = 0 THEN q ELSE q + 1

add_point_from_path_entry(pts, entry) ==
    IF entry.point = <<>> THEN Raised(pts)                  \* KeyError
    ELSE LET ll == parse_latlng(entry.point[1])
         IN  IF ll.raised THEN Raised(pts)                  \* ValueError
             ELSE IF entry.time = <<>> THEN Raised(pts)     \* KeyError, ValueError
             ELSE Returned(Append(pts,
                      [time_utc |-> entry.time[1], lat |-> ll.lat, lon |-> ll.lon]))

add_point_from_visit(pts, seg) ==
    IF seg.latLng = <<>> THEN Returned(pts)                 \* KeyError, TypeError
    ELSE LET ll == parse_latlng(seg.latLng[1])
         IN  IF ll.raised THEN Returned(pts)                \* ValueError
             ELSE IF seg.startTime = <<>> \/ seg.endTime = <<>> THEN Raised(pts)
             ELSE LET start == seg.startTime[1]
                      end   == seg.endTime[1]
                      midpoint == start + HalfOf(end - start)
                  IN  Returned(Append(pts,
                          [time_utc |-> midpoint, lat |-> ll.lat, lon |-> ll.lon]))

\* for entry in seg.get("timelinePath", []): the first exception leaves the loop
RECURSIVE AddPathEntries(_, _)
AddPathEntries(pts, entries) ==
    IF entries = <<>> THEN Returned(pts)
    ELSE LET r == add_point_from_path_entry(pts, entries[1])
         IN  IF r.raised THEN r ELSE AddPathEntries(r.pts, Tail(entries))

\* The body of the for loop over the segments: the try block and its handler
LoadSegment(pts, seg) ==
    LET r == IF seg.hasPath THEN AddPathEntries(pts, seg.timelinePath)
             ELSE IF seg.hasVisit THEN add_point_from_visit(pts, seg)
             ELSE Returned(pts)
    IN  [pts |-> r.pts, warned |-> r.raised]

\* list.sort(key=time_utc): stable
RECURSIVE InsertByTime(_, _)
InsertByTime(sorted, p) ==
    IF sorted = <<>> THEN <<p>>
    ELSE IF sorted[Len(sorted)].time_utc <= p.time_utc THEN Append(sorted, p)
    ELSE Append(InsertByTime(SubSeq(sorted, 1, Len(sorted) - 1), p),
                sorted[Len(sorted)])

RECURSIVE SortByTime(_)
SortByTime(pts) ==
    IF pts = <<>> THEN <<>>
    ELSE InsertByTime(SortByTime(SubSeq(pts, 1, Len(pts) - 1)), pts[Len(pts)])

RECURSIVE LoadAllSegments(_, _)
LoadAllSegments(pts, segs) ==
    IF segs = <<>> THEN pts
    ELSE LoadAllSegments(LoadSegment(pts, segs[1]).pts, Tail(segs))

load_timeline_points(segs) == SortByTime(LoadAllSegments(<<>>, segs))

---------------------------------------------------------------------------
(* Time zones (pytz, timezonefinder) as the driver uses them *)

(* A zone is a record: its two UTC offsets in minutes and the UTC instants *)
(* between which the second one applies.                                   *)

LosAngeles == [name |-> "America/Los_Angeles", std |-> -480, dst |-> -420,
               dst_from |-> -120000, dst_to |-> 223740]
Tokyo      == [name |-> "Asia/Tokyo", std |-> 540, dst |-> 540,
               dst_from |-> 0, dst_to |-> 0]

InDst(zone, utc) == zone.dst_from <= utc /\ utc < zone.dst_to

\* local_dt.utcoffset() of an aware datetime at the instant utc, in minutes
utcoffset(zone, utc) == IF InDst(zone, utc) THEN zone.dst ELSE zone.std

\* camera_tz.localize(naive_dt).astimezone(utc): pytz's default is_dst=False
\* takes the standard offset unless only the daylight one fits
localize_to_utc(zone, naive) ==
    LET dst_fits == InDst(zone, naive - zone.dst)
        std_fits == ~InDst(zone, naive - zone.std)
    IN  IF dst_fits /\ ~std_fits THEN naive - zone.dst ELSE naive - zone.std

\* tf.timezone_at(lat=, lng=): <<zone>>, or <<>> for None (open ocean);
\* coordinates count 1/1024 degree
timezone_at(lat, lon) ==
    IF lat \in (30 * 1024)..(46 * 1024) /\ lon \in (129 * 1024)..(146 * 1024)
    THEN <<Tokyo>>
    ELSE IF lat \in (32 * 1024)..(42 * 1024) /\ lon \in (-125 * 1024)..(-114 * 1024)
    THEN <<LosAngeles>>
    ELSE <<>>

---------------------------------------------------------------------------
(* update_photo and its helpers *)

\* _deg_to_dms_rational: the rationals (deg, 1), (minutes, 1), (sec100, 100)
deg_to_dms_rational(deg_1024) ==
    LET deg_abs == Abs(deg_1024)
        deg     == deg_abs \div 1024
        frac    == deg_abs % 1024                  \* (deg_abs - deg) * 1024
        minutes == (frac * 60) \div 1024
        sec100  == (((frac * 60) % 1024) * 6000) \div 1024
    IN  [deg |-> deg, min |-> minutes, sec100 |-> sec100]

write_gps(exif, lat, lon) ==
    [exif EXCEPT !.GPSLatitudeRef  = <<IF lat >= 0 THEN "N" ELSE "S">>,
                 !.GPSLatitude     = <<deg_to_dms_rational(lat)>>,
                 !.GPSLongitudeRef = <<IF lon >= 0 THEN "E" ELSE "W">>,
                 !.GPSLongitude    = <<deg_to_dms_rational(lon)>>]

\* The skip is taken when the overwrite flag is set instead of when it is not
SkipsExistingGPSInverted(a, exif) ==
    a.overwrite_gps /\ exif.GPSLatitude # <<>> /\ exif.GPSLongitude # <<>>

\* lines 164-168: GPS already present and not overwriting
SkipsExistingGPS(a, exif) ==
    ~a.overwrite_gps /\ exif.GPSLatitude # <<>> /\ exif.GPSLongitude # <<>>

\* The date/time, offset and GPS tags update_photo sets in the tag map
UpdatedExif(exif, local_naive, offset_text, lat, lon) ==
    LET dt_bytes == <<[ok |-> TRUE, t |-> local_naive]>>
    IN  write_gps([exif EXCEPT !.DateTimeOriginal    = dt_bytes,
                               !.DateTimeDigitized   = dt_bytes,
                               !.DateTime            = dt_bytes,
                               !.OffsetTime          = <<offset_text>>,
                               !.OffsetTimeOriginal  = <<offset_text>>,
                               !.OffsetTimeDigitized = <<offset_text>>],
                  lat, lon)

\* The preview branch is missing: the commit is entered whatever apply says
AfterPrepareAlwaysCommits(a) == IF a.backup THEN "backup" ELSE "insert"

\* lines 208-223: where update_photo goes once the tag map is computed
AfterPrepare(a) ==
    IF a.apply THEN (IF a.backup THEN "backup" ELSE "insert") ELSE "preview"

\* The existence check of the backup path is missing
NeedsBackupCopyAlways(backup_exists) == TRUE

\* line 212: if not backup_path.exists()
NeedsBackupCopy(backup_exists) == ~backup_exists

\* The comparison with the tolerance is not strict
GapExceededNotStrict(sample_time, photo_dt_utc, max_gap_minutes) ==
    Abs(sample_time - photo_dt_utc) >= max_gap_minutes

\* line 299: abs(tl_point.time_utc - photo_dt_utc) > max_gap
GapExceeded(sample_time, photo_dt_utc, max_gap_minutes) ==
    Abs(sample_time - photo_dt_utc) > max_gap_minutes

---------------------------------------------------------------------------
(* Values the variables of a specification that does not use them keep *)

IdleFmt   == td = 0 /\ offset_str = <<>>
IdleNear  == ts = 0 /\ nearest = 0
IdleBuild == segments = <<>> /\ seg_idx = 0 /\ tf_points = <<>> /\ warnings = 0
IdleMain  ==
    /\ args = [apply |-> FALSE, backup |-> FALSE, overwrite_gps |-> FALSE,
               max_gap_minutes |-> 0, camera_tz |-> LosAngeles]
    /\ files = <<>> /\ backups = <<>> /\ photo = 0
    /\ processed = 0 /\ skipped = 0 /\ tl_point = 0 /\ exif_dict = <<>>
    /\ run = 0 /\ hist = <<>>

---------------------------------------------------------------------------
(* Specification FmtSpec: _format_tz_offset applied to bounded offsets *)

\* |utcoffset()| is below one day; offsets are taken in steps of 30 seconds
MaxOffsetMinutes == 1439

OffsetSeconds == {30 * h : h \in (-2 * MaxOffsetMinutes)..(2 * MaxOffsetMinutes)}

FmtInit ==
    /\ td \in OffsetSeconds
    /\ offset_str = <<>>
    /\ pc = "format"
    /\ points = <<>>
    /\ IdleNear /\ IdleBuild /\ IdleMain

FormatOffset ==
    /\ pc = "format"
    /\ offset_str' = format_tz_offset(td)
    /\ pc' = "formatted"
    /\ UNCHANGED <<td, points, nearVars, buildVars, mainVars>>

FmtNext == FormatOffset

FmtSpec == FmtInit /\ [][FmtNext]_vars

DigitVal(c) == CHOOSE d \in 0..9 : DigitChars[d + 1] = c

\* C10: for an offset of a whole number of minutes the formatter returns
\* sign, two-digit hours, ":", two-digit minutes, which read back give the
\* offset; -28800 s is -08:00, +19800 s is +05:30 and 0 is +00:00.
FormatOffsetCorrect ==
    (pc = "formatted" /\ td % 60 = 0) =>
        LET s == offset_str
            m == Abs(td) \div 60
        IN  /\ Len(s) = 6
            /\ s[1] = (IF td >= 0 THEN "+" ELSE "-")
            /\ s[4] = ":"
            /\ \A k \in {2, 3, 5, 6} : \E d \in 0..9 : s[k] = DigitChars[d + 1]
            /\ 10 * DigitVal(s[2]) + DigitVal(s[3]) = m \div 60
            /\ 10 * DigitVal(s[5]) + DigitVal(s[6]) = m % 60
            /\ (td = -28800 => s = <<"-", "0", "8", ":", "0", "0">>)
            /\ (td = 19800 => s = <<"+", "0", "5", ":", "3", "0">>)
            /\ (td = 0 => s = <<"+", "0", "0", ":", "0", "0">>)

FormatOffsetWitness ==
    /\ pc = "formatted"
    /\ td = -28800
    /\ offset_str = <<"-", "0", "8", ":", "0", "0">>

---------------------------------------------------------------------------
(* Specification NearestSpec: find_nearest_timeline_point on every sorted *)
(* index within the bounds                                                *)

MaxIndexLen == 3
MaxInstant == 4

IndexInstants == 0..MaxInstant
QueryInstants == -1..(MaxInstant + 1)
IndexCoords == {0, 1}

TimelinePoint(t, la, lo) == [time_utc |-> t, lat |-> la, lon |-> lo]

IsSortedByTime(pts) ==
    \A k \in 1..(Len(pts) - 1) : pts[k].time_utc <= pts[k + 1].time_utc

SortedIndexes ==
    {pts \in UNION {[1..n -> {TimelinePoint(t, la, 0) :
                                  t \in IndexInstants, la \in IndexCoords}]
                    : n \in 0..MaxIndexLen} : IsSortedByTime(pts)}

NearInit ==
    /\ points \in SortedIndexes
    /\ ts \in QueryInstants
    /\ nearest = 0
    /\ pc = "lookup"
    /\ IdleFmt /\ IdleBuild /\ IdleMain

Lookup ==
    /\ pc = "lookup"
    /\ nearest' = find_nearest_timeline_point(points, ts)
    /\ pc' = "found"
    /\ UNCHANGED <<points, ts, fmtVars, buildVars, mainVars>>

NearNext == Lookup

NearestSpec == NearInit /\ [][NearNext]_vars

Distance(k) == Abs(points[k].time_utc - ts)

\* C1: the lookup returns None exactly for the empty index, and otherwise a
\* sample no further from the query than any other sample: the first sample
\* for a query before all samples, the last for a query after all, and a
\* sample with the query's instant when there is one.
NearestIsClosest ==
    pc = "found" =>
        /\ (nearest = 0) <=> (points = <<>>)
        /\ nearest # 0 =>
            /\ nearest \in 1..Len(points)
            /\ \A k \in 1..Len(points) : Distance(nearest) <= Distance(k)
            /\ (ts < points[1].time_utc => nearest = 1)
            /\ (ts > points[Len(points)].time_utc => nearest = Len(points))
            /\ ((\E k \in 1..Len(points) : points[k].time_utc = ts)
                    => points[nearest].time_utc = ts)

NearestWitness ==
    /\ pc = "found"
    /\ Len(points) = 3
    /\ points[1].time_utc < ts /\ ts < points[3].time_utc
    /\ nearest = 2
    /\ Distance(2) < Distance(1) /\ Distance(2) < Distance(3)

\* The query lies strictly between the adjacent samples k and k + 1, at the
\* same distance from both
ExactTie(k) ==
    /\ k \in 1..(Len(points) - 1)
    /\ points[k].time_utc < ts
    /\ ts < points[k + 1].time_utc
    /\ ts - points[k].time_utc = points[k + 1].time_utc - ts

\* C2 as stated: on an exact tie the earlier-indexed (left) sample is returned.
TieReturnsLeft ==
    pc = "found" => \A k \in 1..Len(points) : ExactTie(k) => nearest = k

\* C2 as amended: on an exact tie the later-indexed (right) sample, the one at
\* the insertion index, is returned.
TieReturnsRight ==
    pc = "found" => \A k \in 1..Len(points) : ExactTie(k) => nearest = k + 1

TieWitness ==
    /\ pc = "found"
    /\ \E k \in 1..Len(points) : ExactTie(k) /\ nearest = k + 1

---------------------------------------------------------------------------
(* Specification BuildSpec: load_timeline_points on bounded segment lists *)

MaxSegs == 2
MaxEntries == 3

BuildInstants == {0, 1}
GoodLatLng == <<[num |-> TRUE, val |-> 35], [num |-> TRUE, val |-> 139]>>
BadLatLng  == <<[num |-> FALSE, val |-> 0], [num |-> TRUE, val |-> 139]>>
TimeValues == {<<>>} \cup {<<t>> : t \in BuildInstants}

PathEntries == [point : {<<GoodLatLng>>, <<BadLatLng>>}, time : TimeValues]

PathSegments ==
    {[hasPath |-> TRUE, timelinePath |-> es, hasVisit |-> FALSE,
      latLng |-> <<>>, startTime |-> <<>>, endTime |-> <<>>]
        : es \in UNION {[1..n -> PathEntries] : n \in 0..MaxEntries}}

VisitSegments ==
    {[hasPath |-> FALSE, timelinePath |-> <<>>, hasVisit |-> TRUE,
      latLng |-> ll, startTime |-> st, endTime |-> en]
        : ll \in {<<>>, <<GoodLatLng>>, <<BadLatLng>>},
          st \in TimeValues, en \in TimeValues}

\* a segment with neither key (an activity)
OtherSegments ==
    {[hasPath |-> FALSE, timelinePath |-> <<>>, hasVisit |-> FALSE,
      latLng |-> <<>>, startTime |-> <<0>>, endTime |-> <<1>>]}

SegmentRecords == PathSegments \cup VisitSegments \cup OtherSegments

BuildInit ==
    /\ segments \in UNION {[1..n -> SegmentRecords] : n \in 0..MaxSegs}
    /\ seg_idx = 0
    /\ tf_points = <<>>
    /\ warnings = 0
    /\ points = <<>>
    /\ pc = "load"
    /\ IdleFmt /\ IdleNear /\ IdleMain

\* one iteration of "for seg in segments"
LoadNextSegment ==
    /\ pc = "load"
    /\ seg_idx < Len(segments)
    /\ LET r == LoadSegment(tf_points, segments[seg_idx + 1])
       IN  /\ tf_points' = r.pts
           /\ warnings' = IF r.warned THEN warnings + 1 ELSE warnings
    /\ seg_idx' = seg_idx + 1
    /\ UNCHANGED <<segments, points, pc, fmtVars, nearVars, mainVars>>

\* the loop is over: sort and return
LoadSortAndReturn ==
    /\ pc = "load"
    /\ seg_idx = Len(segments)
    /\ points' = SortByTime(tf_points)
    /\ pc' = "loaded"
    /\ UNCHANGED <<buildVars, fmtVars, nearVars, mainVars>>

BuildNext == LoadNextSegment \/ LoadSortAndReturn

BuildSpec == BuildInit /\ [][BuildNext]_vars

WellFormedEntry(e) ==
    /\ e.point # <<>>
    /\ Len(e.point[1]) = 2 /\ e.point[1][1].num /\ e.point[1][2].num
    /\ e.time # <<>>

\* positions <<segment, entry>> of the well-formed path entries of the log
WellFormedPathEntries ==
    {pos \in (1..Len(segments)) \X (1..MaxEntries + 1) :
        /\ segments[pos[1]].hasPath
        /\ pos[2] <= Len(segments[pos[1]].timelinePath)
        /\ WellFormedEntry(segments[pos[1]].timelinePath[pos[2]])}

SampleOfEntry(pos) ==
    LET e == segments[pos[1]].timelinePath[pos[2]]
    IN  [time_utc |-> e.time[1], lat |-> e.point[1][1].val, lon |-> e.point[1][2].val]

\* C6 as stated: a malformed path entry loses only itself; every well-formed
\* path entry, before or after it in the same segment or in another segment,
\* has its sample in the index that the build returns.
EveryWellFormedEntryContributes ==
    pc = "loaded" =>
        \A pos \in WellFormedPathEntries :
            Cardinality({k \in 1..Len(points) : points[k] = SampleOfEntry(pos)})
              >= Cardinality({q \in WellFormedPathEntries :
                                 SampleOfEntry(q) = SampleOfEntry(pos)})

---------------------------------------------------------------------------
(* Specification Spec: runs of main over a directory of photographs *)

MaxPhotos == 2
MaxRuns == 2

\* Instants count minutes from 2024-06-01T00:00Z.

\* A log with a path sample in Tokyo at 18:00Z, a path sample in the open
\* ocean, a malformed path entry and a visit in Los Angeles
StandardTimeline ==
    << [hasPath |-> TRUE, hasVisit |-> FALSE,
        latLng |-> <<>>, startTime |-> <<>>, endTime |-> <<>>,
        timelinePath |->
          << [point |-> << <<[num |-> TRUE, val |-> 35 * 1024],
                             [num |-> TRUE, val |-> 139 * 1024]>> >>,
              time |-> <<1080>>],
             [point |-> << <<[num |-> TRUE, val |-> 0],
                             [num |-> TRUE, val |-> -150 * 1024]>> >>,
              time |-> <<3000>>],
             [point |-> << <<[num |-> FALSE, val |-> 0]>> >>,
              time |-> <<3100>>] >>],
       [hasPath |-> FALSE, hasVisit |-> TRUE, timelinePath |-> <<>>,
        latLng |-> << <<[num |-> TRUE, val |-> 34 * 1024 + 53],
                        [num |-> TRUE, val |-> -118 * 1024 - 250]>> >>,
        startTime |-> <<5000>>, endTime |-> <<5061>>] >>

Timelines == {<<>>, StandardTimeline}

Stamp(naive) == <<[ok |-> TRUE, t |-> naive]>>
Unparsable == <<[ok |-> FALSE, t |-> 0]>>
SomeDms == [deg |-> 10, min |-> 30, sec100 |-> 1234]

Photograph(stamp, gps_lat, gps_lon) ==
    [DateTimeOriginal |-> stamp, DateTimeDigitized |-> stamp, DateTime |-> stamp,
     OffsetTime |-> <<>>, OffsetTimeOriginal |-> <<>>, OffsetTimeDigitized |-> <<>>,
     GPSLatitudeRef  |-> IF gps_lat = <<>> THEN <<>> ELSE <<"N">>,
     GPSLatitude     |-> gps_lat,
     GPSLongitudeRef |-> IF gps_lon = <<>> THEN <<>> ELSE <<"E">>,
     GPSLongitude    |-> gps_lon]

\* Photographs a directory may hold: taken in Los Angeles at the visit (with
\* a latitude tag only, or with both GPS tags), in Tokyo exactly max_gap
\* before the sample, one minute further away, over the ocean, without a
\* timestamp, with an unparsable one
PhotoKinds ==
    {Photograph(Stamp(4610), <<SomeDms>>, <<>>),
     Photograph(Stamp(4610), <<SomeDms>>, <<SomeDms>>),
     Photograph(Stamp(600), <<>>, <<>>),
     Photograph(Stamp(599), <<>>, <<>>),
     Photograph(Stamp(2585), <<>>, <<>>),
     Photograph(<<>>, <<>>, <<>>),
     Photograph(Unparsable, <<>>, <<>>)}

ArgsChoices ==
    [apply : BOOLEAN, backup : BOOLEAN, overwrite_gps : BOOLEAN,
     max_gap_minutes : {60}, camera_tz : {LosAngeles}]

\* The files as the run found them, and what the run has done so far with
\* the photograph the loop is at
FreshHistory(fs, bs) ==
    [file0 |-> fs, backup0 |-> bs,
     main |-> "pending",      \* how main's loop body ended for it
     called |-> FALSE,        \* update_photo was called
     passed |-> FALSE,        \* update_photo passed its skip checks
     sample |-> 0,            \* index of the sample handed to update_photo
     returned |-> "none",     \* "true", "false", "raised"
     copies |-> 0,            \* shutil.copy2 calls
     inserts |-> 0]           \* piexif.insert calls

NextPhotoHistory == FreshHistory(hist.file0, hist.backup0)

Init ==
    /\ segments \in Timelines
    /\ files \in UNION {[1..n -> PhotoKinds] : n \in 0..MaxPhotos}
    /\ backups = [p \in DOMAIN files |-> <<>>]
    /\ args \in ArgsChoices
    /\ run = 1
    /\ hist = FreshHistory(files, backups)
    /\ points = <<>>
    /\ photo = 0 /\ processed = 0 /\ skipped = 0 /\ tl_point = 0
    /\ exif_dict = <<>>
    /\ pc = "main"
    /\ seg_idx = 0 /\ tf_points = <<>> /\ warnings = 0
    /\ IdleFmt /\ IdleNear

idleInMain == <<fmtVars, nearVars, seg_idx, tf_points, warnings>>

\* lines 273-286: build the index, list the photographs, reset the counters
MainStart ==
    /\ pc = "main"
    /\ points' = load_timeline_points(segments)
    /\ pc' = IF points' = <<>> \/ Len(files) = 0 THEN "exit" ELSE "loop"
    /\ photo' = 0 /\ processed' = 0 /\ skipped' = 0
    /\ UNCHANGED <<segments, args, files, backups, tl_point, exif_dict, run,
                   hist, idleInMain>>

\* the loop body ends without a call of update_photo: skipped += 1
MainSkip(how) ==
    /\ skipped' = skipped + 1
    /\ hist' = [NextPhotoHistory EXCEPT !.main = how]
    /\ pc' = "loop"
    /\ UNCHANGED <<tl_point, processed>>

\* lines 288-303: one photograph up to the call of update_photo
MainRead ==
    /\ pc = "loop"
    /\ photo < Len(files)
    /\ photo' = photo + 1
    /\ \E load_ok \in BOOLEAN :
         LET orig_bytes == files[photo + 1].DateTimeOriginal
         IN  IF ~load_ok THEN MainSkip("failed")               \* piexif.load raises
             ELSE IF orig_bytes = <<>> THEN MainSkip("no_timestamp")
             ELSE IF ~orig_bytes[1].ok THEN MainSkip("failed") \* strptime raises
             ELSE LET photo_dt_utc == localize_to_utc(args.camera_tz, orig_bytes[1].t)
                      found == find_nearest_timeline_point(points, photo_dt_utc)
                  IN  IF found = 0
                         \/ GapExceeded(points[found].time_utc, photo_dt_utc,
                                        args.max_gap_minutes)
                      THEN MainSkip("no_match")
                      ELSE /\ tl_point' = found
                           /\ hist' = [NextPhotoHistory EXCEPT !.called = TRUE,
                                                               !.sample = found]
                           /\ pc' = "update"
                           /\ UNCHANGED <<processed, skipped>>
    /\ UNCHANGED <<segments, points, args, files, backups, exif_dict, run,
                   idleInMain>>

\* update_photo returns to line 304
UpdateReturns(value) ==
    /\ processed' = IF value THEN processed + 1 ELSE processed
    /\ skipped' = skipped
    /\ hist' = [hist EXCEPT !.passed = value,
                            !.returned = IF value THEN "true" ELSE "false",
                            !.main = IF value THEN "processed" ELSE "uncounted"]
    /\ pc' = "loop"

\* update_photo raises into the handler of line 306
UpdateRaises ==
    /\ skipped' = skipped + 1
    /\ processed' = processed
    /\ hist' = [hist EXCEPT !.returned = "raised", !.main = "failed"]
    /\ pc' = "loop"

\* lines 160-206: read the file, take the skip decisions, compute the tag map
UpdatePrepare ==
    /\ pc = "update"
    /\ \E load_ok \in BOOLEAN :
         LET exif == files[photo]
             sample == points[tl_point]
         IN  IF ~load_ok THEN UpdateRaises /\ UNCHANGED exif_dict
             ELSE IF SkipsExistingGPS(args, exif)
                  THEN UpdateReturns(FALSE) /\ exif_dict' = exif
             ELSE IF exif.DateTimeOriginal = <<>>
                  THEN UpdateReturns(FALSE) /\ exif_dict' = exif
             ELSE IF ~exif.DateTimeOriginal[1].ok
                  THEN UpdateRaises /\ exif_dict' = exif
             ELSE LET aware_utc == localize_to_utc(args.camera_tz,
                                                   exif.DateTimeOriginal[1].t)
                      tz_name == timezone_at(sample.lat, sample.lon)
                  IN  IF tz_name = <<>>
                      THEN UpdateReturns(FALSE) /\ exif_dict' = exif
                      ELSE LET offset == utcoffset(tz_name[1], aware_utc)
                               local_naive == aware_utc + offset
                               offset_text == format_tz_offset(60 * offset)
                           IN  /\ exif_dict' = UpdatedExif(exif, local_naive,
                                                   offset_text, sample.lat, sample.lon)
                               /\ IF AfterPrepare(args) = "preview"
                                  THEN UpdateReturns(TRUE)
                                  ELSE /\ pc' = AfterPrepare(args)
                                       /\ hist' = [hist EXCEPT !.passed = TRUE]
                                       /\ UNCHANGED <<processed, skipped>>
    /\ UNCHANGED <<segments, points, args, files, backups, photo, tl_point, run,
                   idleInMain>>

\* lines 210-216: the optional backup copy
UpdateBackup ==
    /\ pc = "backup"
    /\ IF NeedsBackupCopy(backups[photo] # <<>>)
       THEN \E copy_ok \in BOOLEAN :
              /\ backups' = IF copy_ok
                            THEN [backups EXCEPT ![photo] = <<files[photo]>>]
                            ELSE backups                  \* warning, no backup
              /\ hist' = [hist EXCEPT !.copies = @ + 1]
       ELSE UNCHANGED <<backups, hist>>
    /\ pc' = "insert"
    /\ UNCHANGED <<segments, points, args, files, photo, processed, skipped,
                   tl_point, exif_dict, run, idleInMain>>

\* lines 218-219: piexif.insert(piexif.dump(exif_dict), path); return True
UpdateInsert ==
    /\ pc = "insert"
    /\ \E outcome \in {"written", "dump_raises", "insert_raises"} :
         IF outcome = "written"
         THEN /\ files' = [files EXCEPT ![photo] = exif_dict]
              /\ processed' = processed + 1
              /\ skipped' = skipped
              /\ hist' = [hist EXCEPT !.inserts = @ + 1,
                                      !.returned = "true",
                                      !.main = "processed"]
         ELSE /\ files' = files
              /\ skipped' = skipped + 1
              /\ processed' = processed
              /\ hist' = [hist EXCEPT
                     !.inserts = IF outcome = "insert_raises" THEN @ + 1 ELSE @,
                     !.returned = "raised",
                     !.main = "failed"]
    /\ pc' = "loop"
    /\ UNCHANGED <<segments, points, args, backups, photo, tl_point, exif_dict,
                   run, idleInMain>>

\* lines 310-313: the loop is over, the totals are logged
MainFinish ==
    /\ pc = "loop"
    /\ photo = Len(files)
    /\ pc' = "done"
    /\ UNCHANGED <<segments, points, mainVars, idleInMain>>

\* the program is started again on the same directory, with any flags;
\* nothing but the files survives the process
NewRun ==
    /\ pc \in {"done", "exit"}
    /\ run < MaxRuns
    /\ run' = run + 1
    /\ args' \in ArgsChoices
    /\ hist' = FreshHistory(files, backups)
    /\ points' = <<>>
    /\ photo' = 0 /\ processed' = 0 /\ skipped' = 0 /\ tl_point' = 0
    /\ exif_dict' = <<>>
    /\ pc' = "main"
    /\ UNCHANGED <<segments, files, backups, idleInMain>>

Next ==
    \/ MainStart
    \/ MainRead
    \/ UpdatePrepare
    \/ UpdateBackup
    \/ UpdateInsert
    \/ MainFinish
    \/ NewRun

Spec == Init /\ [][Next]_vars

---------------------------------------------------------------------------
(* Properties of Spec.  hist describes the photograph the loop is at, from *)
(* the moment main reads it until main reads the next one.                 *)

InLoop == pc \in {"loop", "update", "backup", "insert", "done"} /\ photo >= 1

StartFile == hist.file0[photo]
StartBackup == hist.backup0[photo]

\* The photograph's file and backup are as the run found them, and neither a
\* copy nor an insert was made for it
Untouched ==
    /\ files[photo] = StartFile
    /\ backups[photo] = StartBackup
    /\ hist.inserts = 0
    /\ hist.copies = 0

HasStamp == StartFile.DateTimeOriginal # <<>> /\ StartFile.DateTimeOriginal[1].ok

PhotoInstant == localize_to_utc(args.camera_tz, StartFile.DateTimeOriginal[1].t)

FarFromEverySample ==
    \A k \in 1..Len(points) :
        Abs(points[k].time_utc - PhotoInstant) > args.max_gap_minutes

\* C3: a photograph further than max_gap from every sample is skipped in
\* main: update_photo is not called for it, its file and backup stay as they
\* were and nothing is written; a photograph with a sample within max_gap is
\* not skipped by the gap check.
GapSkipIsExact ==
    (InLoop /\ HasStamp) =>
        /\ FarFromEverySample =>
              /\ ~hist.called
              /\ Untouched
              /\ hist.main \in {"no_match", "failed"}
        /\ ~FarFromEverySample => hist.main # "no_match"

GapSkipWitness ==
    /\ pc = "loop" /\ photo >= 1
    /\ args.apply /\ args.overwrite_gps
    /\ HasStamp /\ FarFromEverySample
    /\ hist.main = "no_match"
    /\ skipped >= 1

HadBothGPS == StartFile.GPSLatitude # <<>> /\ StartFile.GPSLongitude # <<>>
HadSomeGPS == StartFile.GPSLatitude # <<>> \/ StartFile.GPSLongitude # <<>>

\* The degree/minute/second rationals d, read back, are the coordinate
\* deg_1024 (in 1/1024 degree) cut to a hundredth of an arc second
DmsReadsBack(d, deg_1024) ==
    LET centi == d.deg * 360000 + d.min * 6000 + d.sec100
    IN  /\ d.min \in 0..59 /\ d.sec100 \in 0..5999
        /\ centi * 16 <= Abs(deg_1024) * 5625
        /\ Abs(deg_1024) * 5625 < (centi + 1) * 16

GpsIsOfSample(exif, sample) ==
    /\ exif.GPSLatitudeRef = <<IF sample.lat >= 0 THEN "N" ELSE "S">>
    /\ exif.GPSLongitudeRef = <<IF sample.lon >= 0 THEN "E" ELSE "W">>
    /\ Len(exif.GPSLatitude) = 1 /\ DmsReadsBack(exif.GPSLatitude[1], sample.lat)
    /\ Len(exif.GPSLongitude) = 1 /\ DmsReadsBack(exif.GPSLongitude[1], sample.lon)

EveryPhotoCounted ==
    pc = "done" => processed + skipped = Len(files)

\* C7 as stated: whenever piexif.insert is called for a photograph, its
\* backup file exists at that moment.
BackupExistsAtEveryWrite ==
    [][hist'.inserts > hist.inserts => backups[photo] # <<>>]_vars

\* C8: once update_photo has passed its skip checks, in preview mode no file
\* and no backup of the directory is written and it returns true; in apply
\* mode piexif.insert is called at most once, and when update_photo returns
\* it returns true after exactly one insert that stored the computed tags.
PreviewNeverWrites ==
    (InLoop /\ hist.passed) =>
        /\ ~args.apply =>
              /\ Untouched
              /\ files = hist.file0 /\ backups = hist.backup0
              /\ hist.returned = "true"
        /\ args.apply =>
              /\ hist.inserts <= 1
              /\ hist.returned # "false"
              /\ hist.returned = "true" =>
                    (hist.inserts = 1 /\ files[photo] = exif_dict)

PreviewWitness ==
    /\ pc = "loop" /\ photo >= 1
    /\ ~args.apply /\ args.backup
    /\ hist.passed /\ hist.returned = "true"
    /\ exif_dict # files[photo]
    /\ processed >= 1

=============================================================================
